---- MODULE Spec2Model ----
(***************************************************************************)
(* Model of scripts/generate-icons.py: the image transforms (rounded,      *)
(* padded), the three encoders (save_png, save_ico, save_svg_from_png)     *)
(* and main(), which loads the source once and writes the fixed catalog    *)
(* of 39 destinations in order.                                            *)
(*                                                                         *)
(* Images are values built from the Pillow calls the script makes          *)
(* (open, new, resize, rounded_rectangle, paste); PixelAt evaluates the    *)
(* pixel of such a value.  Floats given on the command line or in the      *)
(* code (radius, scale) are exact fractions <<num, den>>.                  *)
(***************************************************************************)
EXTENDS Integers, Sequences, FiniteSets, TLC

VARIABLES
    pc,          \* position of main(): start, load, save, print, finish, done, exit, crash
    srcState,    \* the source path: "missing", "undecodable" or "ok"
    src,         \* the source picture <<id, w, h>> stored at the source path
    radius,      \* args.radius, a fraction <<num, den>>
    base,        \* main's local `base`
    rounded_img, \* main's local `rounded_img`
    idx,         \* index in the catalog of the destination being processed
    fs,          \* destination path -> file content
    dirs,        \* directories that exist
    stdout,      \* lines printed so far in this run
    stderr,      \* message written to stderr in this run
    exitCode,    \* exit status of the run (-1 while it runs)
    written,     \* destinations whose write completed in this run, in order
    failedAt,    \* index of the destination whose write failed in this run (0: none)
    fsAtStart,   \* the filesystem as the current run found it
    golden,      \* the filesystem as the first completed run left it
    rerun,       \* TRUE in the second invocation of the script
    call,        \* arguments of a single call of a transform or encoder
    ret,         \* what that call returned
    pool         \* entries taken, held and finished when workers share the catalog

vars == <<pc, srcState, src, radius, base, rounded_img, idx, fs, dirs, stdout,
          stderr, exitCode, written, failedAt, fsAtStart, golden, rerun, call, ret, pool>>

pipeVars == <<pc, srcState, src, radius, base, rounded_img, idx, fs, dirs, stdout,
              stderr, exitCode, written, failedAt, fsAtStart, golden, rerun>>

callVars == <<call, ret, pool>>

-----------------------------------------------------------------------------
(* Bounds of the model *)

\* largest width and height of an image handed to a single transform call
MaxDim == 5
\* largest canvas_size handed to a single padded call (besides the launcher sizes)
MaxCanvas == 9
\* source pictures are numbered 0 .. MaxPicture
MaxPicture == 3

-----------------------------------------------------------------------------
(* Arithmetic *)

Min(a, b) == IF a < b THEN a ELSE b

\* int(n * f) for n >= 0 and a fraction f = <<num, den>> >= 0: truncation
IntMul(n, f) == (n * f[1]) \div f[2]

\* Pillow's DIV255: rounded division by 255 of a value in 0 .. 255*255
Div255(a) == LET t == a + 128 IN ((t \div 256) + t) \div 256

-----------------------------------------------------------------------------
(* Image values *)

Transparent == <<0, 0, 0, 0>>

Palette == << <<255, 0, 0, 255>>, <<0, 128, 255, 255>>, <<10, 20, 30, 128>>,
              <<0, 0, 0, 0>>, <<200, 100, 50, 1>> >>

\* pixel (x, y) of source picture id: picture 0 is opaque red, picture 1 is
\* opaque in two colours, the others mix alpha values
SrcPixel(id, x, y) ==
    IF id = 0 THEN Palette[1]
    ELSE IF id = 1 THEN Palette[((x + y) % 2) + 1]
    ELSE Palette[((x * id + y * (id + 1) + id) % Len(Palette)) + 1]

NoImage == [op |-> "none", mode |-> "none", w |-> 0, h |-> 0]

\* what a call leaves when it raises
Raised(what) == [op |-> "raise", mode |-> what, w |-> 0, h |-> 0]

IsImage(v) == v.op \notin {"none", "raise"}

\* Image.open(src).convert("RGBA")
ImageOpen(s) == [op |-> "open", mode |-> "RGBA", w |-> s[2], h |-> s[3], id |-> s[1]]

\* Image.new(mode, (w, h), fill)
ImageNew(mode, w, h, fill) == [op |-> "new", mode |-> mode, w |-> w, h |-> h, fill |-> fill]

\* img.resize((w, h), Image.LANCZOS): a new image; a size below 1 raises
\* ValueError, the same size gives a copy
resize(img, w, h) ==
    IF w < 1 \/ h < 1 THEN Raised("ValueError")
    ELSE IF img.w = w /\ img.h = h THEN img
    ELSE [op |-> "resize", mode |-> img.mode, w |-> w, h |-> h, of |-> img]

\* ImageDraw.Draw(img).rounded_rectangle([x0, y0, x1, y1], radius=r, fill=fill)
rounded_rectangle(img, box, r, fill) ==
    [op |-> "rounded_rectangle", mode |-> img.mode, w |-> img.w, h |-> img.h,
     onto |-> img, box |-> box, r |-> r, fill |-> fill]

\* onto.paste(im, offset, mask): `onto` after the call
paste(onto, im, offset, mask) ==
    [op |-> "paste", mode |-> onto.mode, w |-> onto.w, h |-> onto.h,
     onto |-> onto, im |-> im, at |-> offset, mask |-> mask]

\* the region a rounded rectangle of bounding box box (corners included) and
\* corner radius r covers: the points at most r away from the box shrunk by r
InRoundedRect(x, y, box, r) ==
    /\ box[1] <= x /\ x <= box[3]
    /\ box[2] <= y /\ y <= box[4]
    /\ LET cx == IF x < box[1] + r THEN box[1] + r
                 ELSE IF x > box[3] - r THEN box[3] - r ELSE x
           cy == IF y < box[2] + r THEN box[2] + r
                 ELSE IF y > box[4] - r THEN box[4] - r ELSE y
       IN (x - cx) * (x - cx) + (y - cy) * (y - cy) <= r * r

\* one channel of Pillow's paste through a mask value m in 0 .. 255
Blend(under, over, m) == Div255(under * (255 - m) + over * m)

RECURSIVE PixelAt(_, _, _)
\* the pixel (x, y) of an image value: <<r, g, b, a>> in mode RGBA, a number in mode L
PixelAt(img, x, y) ==
    CASE img.op = "open" -> SrcPixel(img.id, x, y)
      [] img.op = "new" -> img.fill
      [] img.op = "resize" ->
            \* the resampling kernel is not modelled: the nearest source pixel stands for it
            PixelAt(img.of, (x * img.of.w) \div img.w, (y * img.of.h) \div img.h)
      [] img.op = "rounded_rectangle" ->
            IF InRoundedRect(x, y, img.box, img.r) THEN img.fill
            ELSE PixelAt(img.onto, x, y)
      [] img.op = "paste" ->
            LET u == x - img.at[1]
                v == y - img.at[2]
                under == PixelAt(img.onto, x, y)
            IN IF u < 0 \/ v < 0 \/ u >= img.im.w \/ v >= img.im.h THEN under
               ELSE LET over == PixelAt(img.im, u, v)
                        mv == PixelAt(img.mask, u, v)
                        m == IF img.mask.mode = "L" THEN mv ELSE mv[4]
                    IN [c \in 1..4 |-> Blend(under[c], over[c], m)]

Coords(img) == (0 .. img.w - 1) \X (0 .. img.h - 1)

-----------------------------------------------------------------------------
(* The transforms *)

\* rounded with the radius taken from the longer side
rounded_maxside(img, radius_frac) ==
    LET w == img.w
        h == img.h
        r == IntMul(IF w > h THEN w ELSE h, radius_frac)
        mask == rounded_rectangle(ImageNew("L", w, h, 0), <<0, 0, w, h>>, r, 255)
        out == ImageNew("RGBA", w, h, Transparent)
    IN [arg |-> img, out |-> paste(out, img, <<0, 0>>, mask)]

\* rounded(img, radius_frac): `arg` is the caller's image after the call,
\* `out` the image returned
rounded(img, radius_frac) ==
    LET w == img.w
        h == img.h
        r == IntMul(Min(w, h), radius_frac)
        mask == rounded_rectangle(ImageNew("L", w, h, 0), <<0, 0, w, h>>, r, 255)
        out == ImageNew("RGBA", w, h, Transparent)
    IN [arg |-> img, out |-> paste(out, img, <<0, 0>>, mask)]

\* padded with the whole border put before the content
padded_uncentred(img, canvas_size, scale) ==
    LET canvas == ImageNew("RGBA", canvas_size, canvas_size, Transparent)
        inner == IntMul(canvas_size, scale)
        resized == resize(img, inner, inner)
        offset == <<canvas_size - inner, canvas_size - inner>>
    IN IF ~IsImage(resized) THEN resized
       ELSE paste(canvas, resized, offset, resized)

\* padded(img, canvas_size, scale)
padded(img, canvas_size, scale) ==
    LET canvas == ImageNew("RGBA", canvas_size, canvas_size, Transparent)
        inner == IntMul(canvas_size, scale)
        resized == resize(img, inner, inner)
        offset == <<(canvas_size - inner) \div 2, (canvas_size - inner) \div 2>>
    IN IF ~IsImage(resized) THEN resized
       ELSE paste(canvas, resized, offset, resized)

-----------------------------------------------------------------------------
(* The encoders *)

RECURSIVE PixelBytes(_, _)
\* the channel bytes of the pixels k, k+1, ... of img in row order
PixelBytes(img, k) ==
    IF k >= img.w * img.h THEN <<>>
    ELSE PixelAt(img, k % img.w, k \div img.w) \o PixelBytes(img, k + 1)

\* img.save(buf, format="PNG"): the bytes of the encoded image.  The codec is
\* not modelled: two size bytes and the raw pixels stand for its output.
PngEncode(img) == <<img.w % 256, img.h % 256>> \o PixelBytes(img, 0)

B64Alphabet ==
    << "A", "B", "C", "D", "E", "F", "G", "H", "I", "J", "K", "L", "M",
       "N", "O", "P", "Q", "R", "S", "T", "U", "V", "W", "X", "Y", "Z",
       "a", "b", "c", "d", "e", "f", "g", "h", "i", "j", "k", "l", "m",
       "n", "o", "p", "q", "r", "s", "t", "u", "v", "w", "x", "y", "z",
       "0", "1", "2", "3", "4", "5", "6", "7", "8", "9", "+", "/" >>

B64Char(n) == B64Alphabet[n + 1]

RECURSIVE b64encode_nopad(_)
\* b64encode without the "=" padding of the last group
b64encode_nopad(bs) ==
    IF Len(bs) = 0 THEN <<>>
    ELSE IF Len(bs) = 1 THEN
        <<B64Char(bs[1] \div 4), B64Char((bs[1] % 4) * 16)>>
    ELSE IF Len(bs) = 2 THEN
        <<B64Char(bs[1] \div 4),
          B64Char((bs[1] % 4) * 16 + bs[2] \div 16),
          B64Char((bs[2] % 16) * 4)>>
    ELSE
        <<B64Char(bs[1] \div 4),
          B64Char((bs[1] % 4) * 16 + bs[2] \div 16),
          B64Char((bs[2] % 16) * 4 + bs[3] \div 64),
          B64Char(bs[3] % 64)>> \o b64encode_nopad(SubSeq(bs, 4, Len(bs)))

RECURSIVE b64encode(_)
\* base64.b64encode(bytes).decode("ascii"): four characters per three bytes,
\* the last group padded with "="
b64encode(bs) ==
    IF Len(bs) = 0 THEN <<>>
    ELSE IF Len(bs) = 1 THEN
        <<B64Char(bs[1] \div 4), B64Char((bs[1] % 4) * 16), "=", "=">>
    ELSE IF Len(bs) = 2 THEN
        <<B64Char(bs[1] \div 4),
          B64Char((bs[1] % 4) * 16 + bs[2] \div 16),
          B64Char((bs[2] % 16) * 4), "=">>
    ELSE
        <<B64Char(bs[1] \div 4),
          B64Char((bs[1] % 4) * 16 + bs[2] \div 16),
          B64Char((bs[2] % 16) * 4 + bs[3] \div 64),
          B64Char(bs[3] % 64)>> \o b64encode(SubSeq(bs, 4, Len(bs)))

DecDigits == <<"0", "1", "2", "3", "4", "5", "6", "7", "8", "9">>

RECURSIVE Str(_)
\* f"{n}" for an int n >= 0: its decimal digits
Str(n) == IF n < 10 THEN <<DecDigits[n + 1]>>
          ELSE Str(n \div 10) \o <<DecDigits[(n % 10) + 1]>>

\* the document save_svg_from_png writes for img
SvgDocument(img) ==
    LET b64 == b64encode(PngEncode(img))
    IN [fmt |-> "SVG",
        width |-> Str(img.w),
        height |-> Str(img.h),
        viewBox |-> <<Str(0), Str(0), Str(img.w), Str(img.h)>>,
        image |-> [scheme |-> "data:image/png;base64,", payload |-> b64,
                   width |-> Str(img.w), height |-> Str(img.h)],
        style |-> "filter:none"]

\* the file save_svg_from_png writes for img: the text of SvgDocument(img),
\* kept as the image it wraps
SvgFile(img) == [fmt |-> "SVG", img |-> img]

\* the file save_png writes for img: the bytes of PngEncode(img), kept as the
\* image they encode
PngFile(img) == [fmt |-> "PNG", img |-> img]

RECURSIVE SortedSizes(_)
\* sorted(set(sizes)) as a sequence
SortedSizes(S) ==
    IF S = {} THEN <<>>
    ELSE LET m == CHOOSE a \in S : \A b \in S : a <= b
         IN <<m>> \o SortedSizes(S \ {m})

\* Pillow's ICO writer for im.save(dest, format="ICO", sizes=sizes) without
\* append_images: one frame per distinct size that fits im and 256, each made
\* from im itself (im when the size is im's, a thumbnail of im otherwise)
IcoFrames(im, sizes) ==
    LET want == SortedSizes({sizes[i] : i \in 1..Len(sizes)})
        fits == SelectSeq(want, LAMBDA s : s <= im.w /\ s <= im.h /\ s <= 256)
    IN [i \in 1..Len(fits) |-> resize(im, fits[i], fits[i])]

\* the file save_ico writes for base and sizes
IcoFile(base_img, sizes) ==
    LET imgs == [i \in 1..Len(sizes) |-> resize(base_img, sizes[i], sizes[i])]
    IN [fmt |-> "ICO", frames |-> IcoFrames(imgs[Len(imgs)], sizes)]

\* the default of save_ico's parameter sizes
DefaultIcoSizes == <<16, 32, 48, 64>>

-----------------------------------------------------------------------------
(* The catalog of destinations, in the order main() writes them *)

Entry(dir, name, enc, what, size) ==
    [dir |-> dir, name |-> name, enc |-> enc, what |-> what, size |-> size]

\* ROOT / dir / name, relative to ROOT
Dest(e) == e.dir \o "/" \o e.name

res_root == "apps/mobile.pro/android/app/src/main/res"

Branding ==
    << Entry("packages/branding/icons", "tasktrove-icon.png", "png", "base", 0),
       Entry("packages/branding/icons", "tasktrove-icon.svg", "svg", "base", 0) >>

PublicCopies ==
    << Entry("apps/import.pro/public", "tasktrove-icon.svg", "svg", "base", 0),
       Entry("apps/docs.pro/docs/public", "tasktrove-icon.svg", "svg", "base", 0) >>

icon0_targets ==
    << Entry("apps/web/app", "icon0.svg", "svg", "base", 0),
       Entry("apps/web.pro/app", "icon0.svg", "svg", "base", 0),
       Entry("apps/mobile.pro/app", "icon0.svg", "svg", "base", 0) >>

icon_rounded_targets ==
    << Entry("apps/web/app", "icon-rounded.svg", "svg", "rounded", 0),
       Entry("apps/web.pro/app", "icon-rounded.svg", "svg", "rounded", 0),
       Entry("apps/mobile.pro/app", "icon-rounded.svg", "svg", "rounded", 0),
       Entry("apps/web/public", "icon-rounded.svg", "svg", "rounded", 0),
       Entry("apps/web.pro/public", "icon-rounded.svg", "svg", "rounded", 0),
       Entry("apps/mobile.pro/public", "icon-rounded.svg", "svg", "rounded", 0) >>

\* png_sizes with icon.png written to the path of icon1.png
png_sizes_clash ==
    << Entry("apps/web/app", "icon1.png", "png", "resize", 96),
       Entry("apps/mobile.pro/app", "icon1.png", "png", "resize", 96),
       Entry("apps/mobile.pro/app", "icon1.png", "png", "resize", 180),
       Entry("apps/web/app", "apple-icon.png", "png", "resize", 180),
       Entry("apps/mobile.pro/app", "apple-icon.png", "png", "resize", 180) >>

png_sizes ==
    << Entry("apps/web/app", "icon1.png", "png", "resize", 96),
       Entry("apps/mobile.pro/app", "icon1.png", "png", "resize", 96),
       Entry("apps/mobile.pro/app", "icon.png", "png", "resize", 96),
       Entry("apps/web/app", "apple-icon.png", "png", "resize", 180),
       Entry("apps/mobile.pro/app", "apple-icon.png", "png", "resize", 180) >>

Favicons ==
    << Entry("apps/web/app", "favicon.ico", "ico", "ico", 0),
       Entry("apps/import.pro/app", "favicon.ico", "ico", "ico", 0),
       Entry("apps/mobile.pro/app", "favicon.ico", "ico", "ico", 0) >>

\* folder -> canvas size, in the order of the dict
classic ==
    << <<"mipmap-mdpi", 48>>, <<"mipmap-hdpi", 72>>, <<"mipmap-xhdpi", 96>>,
       <<"mipmap-xxhdpi", 144>>, <<"mipmap-xxxhdpi", 192>> >>

foreground ==
    << <<"mipmap-mdpi", 108>>, <<"mipmap-hdpi", 162>>, <<"mipmap-xhdpi", 216>>,
       <<"mipmap-xxhdpi", 324>>, <<"mipmap-xxxhdpi", 432>> >>

\* the scale main() passes to padded
LauncherScale == <<2, 3>>

ClassicLaunchers ==
    [k \in 1..(2 * Len(classic)) |->
        LET c == classic[(k + 1) \div 2]
        IN Entry(res_root \o "/" \o c[1],
                 IF k % 2 = 1 THEN "ic_launcher.png" ELSE "ic_launcher_round.png",
                 "png", "padded", c[2])]

ForegroundLaunchers ==
    [k \in 1..Len(foreground) |->
        Entry(res_root \o "/" \o foreground[k][1], "ic_launcher_foreground.png",
              "png", "padded", foreground[k][2])]

XmlHelpers ==
    << Entry(res_root \o "/drawable-v24", "ic_launcher_foreground.xml", "xml", "fg_xml", 0),
       Entry(res_root \o "/drawable", "ic_launcher_background.xml", "xml", "bg_xml", 0) >>

notif_canvas == 96
notif_inner == 96

Notification ==
    << Entry(res_root \o "/drawable", "ic_stat_tasktrove.png", "png", "notif", notif_canvas) >>

Manifest ==
    Branding \o PublicCopies \o icon0_targets \o icon_rounded_targets \o png_sizes
    \o Favicons \o ClassicLaunchers \o ForegroundLaunchers \o XmlHelpers \o Notification

\* the destination of each entry
DestOf == [i \in 1..Len(Manifest) |-> Dest(Manifest[i])]

Dests == {DestOf[i] : i \in 1..Len(Manifest)}

\* the content main() writes for entry e, given its locals base and rounded_img
Artifact(e, b, r) ==
    CASE e.what = "base" /\ e.enc = "png" -> PngFile(b)
      [] e.what = "base" /\ e.enc = "svg" -> SvgFile(b)
      [] e.what = "rounded" -> SvgFile(r)
      [] e.what = "resize" -> PngFile(resize(b, e.size, e.size))
      [] e.what = "ico" -> IcoFile(b, DefaultIcoSizes)
      [] e.what = "padded" -> PngFile(padded(b, e.size, LauncherScale))
      [] e.what = "fg_xml" ->
            [fmt |-> "XML", text |-> "<bitmap android:src=@mipmap/ic_launcher_foreground android:gravity=center />"]
      [] e.what = "bg_xml" ->
            [fmt |-> "XML", text |-> "<vector 108dp x 108dp><path fillColor=#FFFFFFFF pathData=M0,0h108v108h-108z /></vector>"]
      [] e.what = "notif" ->
            LET notif == ImageNew("RGBA", notif_canvas, notif_canvas, Transparent)
                glyph == resize(b, notif_inner, notif_inner)
                off == <<(notif_canvas - notif_inner) \div 2, (notif_canvas - notif_inner) \div 2>>
            IN PngFile(paste(notif, glyph, off, glyph))

-----------------------------------------------------------------------------
(* main() *)

Absent == [fmt |-> "absent"]
Other == [fmt |-> "other"]
Partial == [fmt |-> "partial"]
Unset == [d \in Dests |-> [fmt |-> "unset"]]

NoCall == [fn |-> "none", done |-> FALSE]
NoPool == [next |-> 0, held |-> <<>>, finished |-> {}]

\* the source pictures <<id, w, h>> a run may be given
Pictures == {<<0, 2, 2>>, <<2, 3, 3>>}

\* the values of --radius a run may be given (0.2 is the default)
Radii == {<<1, 5>>, <<1, 2>>}

\* what the destinations may hold before the first run: nothing, or other
\* content at every second destination
InitialFs ==
    {[d \in Dests |->
        LET i == CHOOSE j \in 1..Len(Manifest) : DestOf[j] = d
        IN IF i % m = 0 THEN Other ELSE Absent] : m \in {2, Len(Manifest) + 1}}

Init ==
    /\ pc = "start"
    /\ srcState \in {"missing", "undecodable", "ok"}
    /\ src \in Pictures
    /\ radius \in Radii
    /\ base = NoImage
    /\ rounded_img = NoImage
    /\ idx = 0
    /\ fs \in InitialFs
    /\ dirs = {Manifest[i].dir : i \in {j \in 1..Len(Manifest) : fs[Dest(Manifest[j])] # Absent}}
    /\ stdout = <<>>
    /\ stderr = ""
    /\ exitCode = -1
    /\ written = <<>>
    /\ failedAt = 0
    /\ fsAtStart = [files |-> fs, dirs |-> dirs]
    /\ golden = Unset
    /\ rerun = FALSE
    /\ call = NoCall
    /\ ret = NoImage
    /\ pool = NoPool

\* CheckSource without the check that the source exists
CheckSource_unchecked ==
    /\ pc = "start"
    /\ pc' = "load"
    /\ UNCHANGED <<stderr, exitCode>>
    /\ UNCHANGED <<srcState, src, radius, base, rounded_img, idx, fs, dirs, stdout,
                   written, failedAt, fsAtStart, golden, rerun, callVars>>

\* parse_args, resolve, and the check that the source exists
CheckSource ==
    /\ pc = "start"
    /\ IF srcState = "missing"
       THEN /\ pc' = "exit"
            /\ stderr' = "Source not found"
            /\ exitCode' = 1
       ELSE /\ pc' = "load"
            /\ UNCHANGED <<stderr, exitCode>>
    /\ UNCHANGED <<srcState, src, radius, base, rounded_img, idx, fs, dirs, stdout,
                   written, failedAt, fsAtStart, golden, rerun, callVars>>

\* Image.open(src).convert("RGBA") and rounded(base, args.radius)
LoadSource ==
    /\ pc = "load"
    /\ srcState = "ok"
    /\ LET e == rounded(ImageOpen(src), radius)
       IN /\ base' = e.arg
          /\ rounded_img' = e.out
    /\ idx' = 1
    /\ pc' = "save"
    /\ UNCHANGED <<srcState, src, radius, fs, dirs, stdout, stderr, exitCode,
                   written, failedAt, fsAtStart, golden, rerun, callVars>>

\* Image.open raises on a file that is missing or no image: the exception is
\* not caught
LoadFails ==
    /\ pc = "load"
    /\ srcState # "ok"
    /\ pc' = "crash"
    /\ stderr' = "Traceback"
    /\ exitCode' = 1
    /\ UNCHANGED <<srcState, src, radius, base, rounded_img, idx, fs, dirs, stdout,
                   written, failedAt, fsAtStart, golden, rerun, callVars>>

\* Save that leaves a destination alone when a file is already there
Save_keeps_existing ==
    /\ pc = "save"
    /\ LET e == Manifest[idx]
       IN /\ dirs' = dirs \cup {e.dir}
          /\ fs' = IF fs[Dest(e)] # Absent THEN fs
                   ELSE [fs EXCEPT ![Dest(e)] = Artifact(e, base, rounded_img)]
          /\ written' = Append(written, Dest(e))
    /\ pc' = "log"
    /\ UNCHANGED <<srcState, src, radius, base, rounded_img, idx, stdout, stderr,
                   exitCode, failedAt, fsAtStart, golden, rerun, callVars>>

\* ensure_parent and the write of destination idx succeed
Save ==
    /\ pc = "save"
    /\ LET e == Manifest[idx]
       IN /\ dirs' = dirs \cup {e.dir}
          /\ fs' = [fs EXCEPT ![Dest(e)] = Artifact(e, base, rounded_img)]
          /\ written' = Append(written, Dest(e))
    /\ pc' = "log"
    /\ UNCHANGED <<srcState, src, radius, base, rounded_img, idx, stdout, stderr,
                   exitCode, failedAt, fsAtStart, golden, rerun, callVars>>

\* SaveFails with the exception caught: the run goes on to the progress line
SaveFails_swallowed ==
    /\ pc = "save"
    /\ LET e == Manifest[idx]
       IN \E made \in BOOLEAN, part \in BOOLEAN :
            /\ part => made
            /\ dirs' = IF made THEN dirs \cup {e.dir} ELSE dirs
            /\ fs' = IF part THEN [fs EXCEPT ![Dest(e)] = Partial] ELSE fs
    /\ failedAt' = idx
    /\ pc' = "log"
    /\ UNCHANGED <<srcState, src, radius, base, rounded_img, idx, stdout, stderr,
                   exitCode, written, fsAtStart, golden, rerun, callVars>>

\* ensure_parent or the write of destination idx raises: the directory may or
\* may not have been made, the file is as it was or holds a partial write;
\* the exception is not caught
SaveFails ==
    /\ pc = "save"
    /\ LET e == Manifest[idx]
       IN \E made \in BOOLEAN, part \in BOOLEAN :
            /\ part => made
            /\ dirs' = IF made THEN dirs \cup {e.dir} ELSE dirs
            /\ fs' = IF part THEN [fs EXCEPT ![Dest(e)] = Partial] ELSE fs
    /\ failedAt' = idx
    /\ pc' = "crash"
    /\ stderr' = "Traceback"
    /\ exitCode' = 1
    /\ UNCHANGED <<srcState, src, radius, base, rounded_img, idx, stdout, written,
                   fsAtStart, golden, rerun, callVars>>

\* Log that ends the catalog one entry early
Log_stops_early ==
    /\ pc = "log"
    /\ stdout' = Append(stdout, <<Manifest[idx].enc, Dest(Manifest[idx])>>)
    /\ IF idx >= Len(Manifest) - 1
       THEN pc' = "finish" /\ idx' = idx
       ELSE pc' = "save" /\ idx' = idx + 1
    /\ UNCHANGED <<srcState, src, radius, base, rounded_img, fs, dirs, stderr,
                   exitCode, written, failedAt, fsAtStart, golden, rerun, callVars>>

\* the progress line of destination idx, and the step to the next destination
Log ==
    /\ pc = "log"
    /\ stdout' = Append(stdout, <<Manifest[idx].enc, Dest(Manifest[idx])>>)
    /\ IF idx = Len(Manifest)
       THEN pc' = "finish" /\ idx' = idx
       ELSE pc' = "save" /\ idx' = idx + 1
    /\ UNCHANGED <<srcState, src, radius, base, rounded_img, fs, dirs, stderr,
                   exitCode, written, failedAt, fsAtStart, golden, rerun, callVars>>

\* print("done") and the return of main()
Finish ==
    /\ pc = "finish"
    /\ stdout' = Append(stdout, <<"done">>)
    /\ pc' = "done"
    /\ exitCode' = 0
    /\ golden' = IF golden = Unset THEN fs ELSE golden
    /\ UNCHANGED <<srcState, src, radius, base, rounded_img, idx, fs, dirs, stderr,
                   written, failedAt, fsAtStart, rerun, callVars>>

\* the script is run once more with the same arguments on what the first run
\* left; the source path may have been repaired meanwhile
Rerun ==
    /\ pc \in {"done", "exit", "crash"}
    /\ ~rerun
    /\ rerun' = TRUE
    /\ srcState' \in {srcState, "ok"}
    /\ pc' = "start"
    /\ base' = NoImage
    /\ rounded_img' = NoImage
    /\ idx' = 0
    /\ stdout' = <<>>
    /\ stderr' = ""
    /\ exitCode' = -1
    /\ written' = <<>>
    /\ failedAt' = 0
    /\ fsAtStart' = [files |-> fs, dirs |-> dirs]
    /\ UNCHANGED <<src, radius, fs, dirs, golden, callVars>>

Next ==
    \/ CheckSource
    \/ LoadSource
    \/ LoadFails
    \/ Save
    \/ SaveFails
    \/ Log
    \/ Finish
    \/ Rerun

Spec == Init /\ [][Next]_vars

\* the steps of main(): a started run goes on until it ends
Step == CheckSource \/ LoadSource \/ LoadFails \/ Save \/ SaveFails \/ Log \/ Finish

\* the runs on the first picture
LiveInit == Init /\ src = <<0, 2, 2>>

LiveSpec == LiveInit /\ [][Next]_vars /\ WF_vars(Step)

-----------------------------------------------------------------------------
(* Properties of main() (checked under Spec and LiveSpec) *)

\* the format of the file an encoding writes
FileFormat(enc) ==
    CASE enc = "png" -> "PNG" [] enc = "svg" -> "SVG" [] enc = "ico" -> "ICO" [] enc = "xml" -> "XML"

\* the destinations of the first n entries, in order
DestsUpTo(n) == [i \in 1..n |-> DestOf[i]]

\* the progress lines of the first n entries, in order
LinesUpTo(n) == [i \in 1..n |-> <<Manifest[i].enc, DestOf[i]>>]

\* what a run on picture s with radius f writes for the i-th entry
ContentFor(i, s, f) ==
    Artifact(Manifest[i], ImageOpen(s), rounded(ImageOpen(s), f).out)

\* C1: a run that finds the source path missing aborts with a non-zero exit
\* status and a message; it runs no transform, creates or writes no file or
\* directory, and prints no progress line and no 'done' line.
C1_MissingSourceAborts ==
    srcState = "missing" =>
        /\ pc \in {"start", "exit"}
        /\ pc = "exit" => (exitCode # 0 /\ exitCode # -1 /\ stderr = "Source not found")
        /\ base = NoImage /\ rounded_img = NoImage
        /\ fs = fsAtStart.files /\ dirs = fsAtStart.dirs
        /\ written = <<>>
        /\ stdout = <<>>

\* a run aborted on a missing source, with a destination still absent
C1_Witness ==
    /\ srcState = "missing" /\ pc = "exit" /\ exitCode = 1
    /\ \E d \in Dests : fs[d] = Absent

\* C2: a failed write aborts the run there: the destinations written in the
\* run are exactly those before the failed one, each with its progress line,
\* no later destination is written or logged, 'done' is not printed and the
\* exit status is not zero; a run that ends normally has written all 39.
C2_AbortAtFirstFailure ==
    /\ failedAt # 0 =>
        /\ pc = "crash" /\ exitCode # 0
        /\ written = DestsUpTo(failedAt - 1)
        /\ stdout = LinesUpTo(failedAt - 1)
        /\ \A i \in 1..Len(Manifest) :
              /\ i < failedAt => fs[DestOf[i]].fmt = FileFormat(Manifest[i].enc)
              /\ i > failedAt => fs[DestOf[i]] = fsAtStart.files[DestOf[i]]
              /\ i = failedAt => fs[DestOf[i]] \in {fsAtStart.files[DestOf[i]], Partial}
    /\ pc = "done" => (failedAt = 0 /\ written = DestsUpTo(39))

\* a run aborted at the 20th destination, which is left partly written
C2_Witness ==
    /\ pc = "crash" /\ failedAt = 20
    /\ Len(written) = 19
    /\ fs[DestOf[20]] = Partial
    /\ fs[DestOf[21]] = Absent

\* how the progress lines follow the writes, in every state of a run
LinesFollowWrites ==
    /\ Len(stdout) <= Len(written) + 1
    /\ \A i \in 1..Len(stdout) :
          IF stdout[i] = <<"done">>
          THEN i = Len(stdout) /\ i = Len(Manifest) + 1 /\ Len(written) = Len(Manifest)
          ELSE i <= Len(written) /\ stdout[i] = <<Manifest[i].enc, written[i]>>

\* what a completed run leaves
CompletedRun ==
    /\ Len(Manifest) = 39
    /\ <<Len(Branding), Len(PublicCopies), Len(icon0_targets), Len(icon_rounded_targets),
         Len(png_sizes), Len(Favicons), Len(ClassicLaunchers), Len(ForegroundLaunchers),
         Len(XmlHelpers), Len(Notification)>> = <<2, 2, 3, 6, 5, 3, 10, 5, 2, 1>>
    /\ written = DestsUpTo(Len(Manifest))
    /\ stdout = LinesUpTo(Len(Manifest)) \o << <<"done">> >>
    /\ \A i \in 1..Len(Manifest) : fs[DestOf[i]] = Artifact(Manifest[i], base, rounded_img)
    /\ exitCode = 0

C7_RunIsIdempotent ==
    pc = "done" =>
        /\ \A i \in 1..Len(Manifest) : fs[DestOf[i]] = ContentFor(i, src, radius)
        /\ golden # Unset /\ fs = golden

\* a second completed run, started on what the first completed run left
C7_Witness ==
    /\ pc = "done" /\ rerun
    /\ fsAtStart.files = golden
    /\ fs = golden

\* C8 as stated: after a completed run each of web, web.pro and mobile.pro has
\* received icon0.svg, icon1.png, apple-icon.png, favicon.ico and
\* icon-rounded.svg in its app directory
C8_AsStated ==
    pc = "done" =>
        \A app \in {"web", "web.pro", "mobile.pro"} :
            \A icon \in {"icon0.svg", "icon1.png", "apple-icon.png", "favicon.ico",
                         "icon-rounded.svg"} :
                \E i \in 1..Len(written) : written[i] = "apps/" \o app \o "/app/" \o icon

-----------------------------------------------------------------------------
(* Single calls of rounded, padded and save_svg_from_png *)

\* main() is not running
Idle ==
    /\ pc = "idle"
    /\ srcState = "ok"
    /\ src = <<0, 1, 1>>
    /\ radius = <<1, 5>>
    /\ base = NoImage
    /\ rounded_img = NoImage
    /\ idx = 0
    /\ fs = Unset
    /\ dirs = {}
    /\ stdout = <<>>
    /\ stderr = ""
    /\ exitCode = -1
    /\ written = <<>>
    /\ failedAt = 0
    /\ fsAtStart = [files |-> Unset, dirs |-> {}]
    /\ golden = Unset
    /\ rerun = FALSE

\* the images a single call may be given
SmallImages ==
    {ImageOpen(<<id, w, h>>) : id \in 0..MaxPicture, w \in 1..MaxDim, h \in 1..MaxDim}

\* the 512 x 512 opaque red square of the end-to-end scenario
RedSquare == ImageOpen(<<0, 512, 512>>)

\* radius fractions from 0 to one half
RadiusFracs == {<<0, 1>>, <<1, 5>>, <<1, 3>>, <<2, 5>>, <<1, 2>>}

\* scale fractions in (0, 1]
Scales == {<<1, 10>>, <<1, 3>>, <<1, 2>>, <<2, 3>>, <<3, 4>>, <<1, 1>>}

LauncherSizes ==
    {classic[k][2] : k \in 1..Len(classic)} \cup {foreground[k][2] : k \in 1..Len(foreground)}

InitRounded ==
    /\ Idle
    /\ \E img \in SmallImages \cup {RedSquare}, f \in RadiusFracs :
          call = [fn |-> "rounded", done |-> FALSE, given |-> img, img |-> img,
                  radius_frac |-> f]
    /\ ret = NoImage
    /\ pool = NoPool

\* one call rounded(img, radius_frac)
RoundedCall ==
    /\ call.fn = "rounded"
    /\ ~call.done
    /\ LET e == rounded(call.img, call.radius_frac)
       IN /\ ret' = e.out
          /\ call' = [call EXCEPT !.done = TRUE, !.img = e.arg]
    /\ UNCHANGED <<pipeVars, pool>>

SpecRounded == InitRounded /\ [][RoundedCall]_vars

InitPadded ==
    /\ Idle
    /\ \E img \in {i \in SmallImages : i.w \in {1, MaxDim} /\ i.h = i.w},
          S \in (1..MaxCanvas) \cup LauncherSizes, f \in Scales :
          call = [fn |-> "padded", done |-> FALSE, img |-> img, canvas_size |-> S,
                  scale |-> f]
    /\ ret = NoImage
    /\ pool = NoPool

\* one call padded(img, canvas_size, scale)
PaddedCall ==
    /\ call.fn = "padded"
    /\ ~call.done
    /\ ret' = padded(call.img, call.canvas_size, call.scale)
    /\ call' = [call EXCEPT !.done = TRUE]
    /\ UNCHANGED <<pipeVars, pool>>

SpecPadded == InitPadded /\ [][PaddedCall]_vars

InitSvg ==
    /\ Idle
    /\ \E img \in SmallImages \cup {rounded(i, <<1, 2>>).out : i \in SmallImages} :
          call = [fn |-> "save_svg_from_png", done |-> FALSE, img |-> img]
    /\ ret = NoImage
    /\ pool = NoPool

\* one call save_svg_from_png(img, dest): ret is the document written to dest
SvgCall ==
    /\ call.fn = "save_svg_from_png"
    /\ ~call.done
    /\ ret' = SvgDocument(call.img)
    /\ call' = [call EXCEPT !.done = TRUE]
    /\ UNCHANGED <<pipeVars, pool>>

SpecSvg == InitSvg /\ [][SvgCall]_vars

\* the lists of sizes a single save_ico call may be given
IcoSizeLists == {DefaultIcoSizes, <<16, 32>>, <<32>>}

InitIco ==
    /\ Idle
    /\ \E img \in SmallImages \cup {RedSquare}, sizes \in IcoSizeLists :
          call = [fn |-> "save_ico", done |-> FALSE, base |-> img, sizes |-> sizes]
    /\ ret = NoImage
    /\ pool = NoPool

\* one call save_ico(base, dest, sizes): ret is the bundle written to dest
IcoCall ==
    /\ call.fn = "save_ico"
    /\ ~call.done
    /\ ret' = IcoFile(call.base, call.sizes)
    /\ call' = [call EXCEPT !.done = TRUE]
    /\ UNCHANGED <<pipeVars, pool>>

SpecIco == InitIco /\ [][IcoCall]_vars

-----------------------------------------------------------------------------
(* The catalog shared by workers: the entries of main(), each still
   transformed, written and logged as main() does, but handed out one by one,
   from either end of the catalog, to two workers that run at their own pace *)

Workers == {"w1", "w2"}

IdleWorker == [entry |-> 0, phase |-> "idle"]

\* the k-th entry handed out
EntryAt(k) == IF pool.order = "forward" THEN k ELSE Len(Manifest) + 1 - k

InitPool ==
    /\ pc = "pool"
    /\ srcState = "ok"
    /\ src \in Pictures
    /\ radius = <<1, 5>>
    /\ base = rounded(ImageOpen(src), radius).arg
    /\ rounded_img = rounded(ImageOpen(src), radius).out
    /\ idx = 0
    /\ fs \in InitialFs
    /\ dirs = {Manifest[i].dir : i \in {j \in 1..Len(Manifest) : fs[Dest(Manifest[j])] # Absent}}
    /\ stdout = <<>>
    /\ stderr = ""
    /\ exitCode = -1
    /\ written = <<>>
    /\ failedAt = 0
    /\ fsAtStart = [files |-> fs, dirs |-> dirs]
    /\ golden = Unset
    /\ rerun = FALSE
    /\ call = NoCall
    /\ ret = NoImage
    /\ \E o \in {"forward", "reverse"} :
          pool = [order |-> o, next |-> 1, held |-> [w \in Workers |-> IdleWorker],
                  finished |-> {}, logged |-> {}]

\* an idle worker takes the next entry
Take(w) ==
    /\ pc = "pool"
    /\ pool.held[w].phase = "idle"
    /\ pool.next <= Len(Manifest)
    /\ pool' = [pool EXCEPT !.next = @ + 1,
                            !.held[w] = [entry |-> EntryAt(pool.next), phase |-> "taken"]]
    /\ UNCHANGED <<pipeVars, call, ret>>

\* a worker transforms, encodes and writes the entry it holds
PoolWrite(w) ==
    /\ pc = "pool"
    /\ pool.held[w].phase = "taken"
    /\ LET e == Manifest[pool.held[w].entry]
       IN /\ dirs' = dirs \cup {e.dir}
          /\ fs' = [fs EXCEPT ![Dest(e)] = Artifact(e, base, rounded_img)]
    /\ pool' = [pool EXCEPT !.held[w].phase = "written"]
    /\ UNCHANGED <<pc, srcState, src, radius, base, rounded_img, idx, stdout, stderr,
                   exitCode, written, failedAt, fsAtStart, golden, rerun, call, ret>>

\* a worker prints the progress line of the entry it wrote and is idle again
PoolLog(w) ==
    /\ pc = "pool"
    /\ pool.held[w].phase = "written"
    /\ LET e == Manifest[pool.held[w].entry]
       IN pool' = [pool EXCEPT !.held[w] = IdleWorker,
                               !.finished = @ \cup {pool.held[w].entry},
                               !.logged = @ \cup {<<e.enc, Dest(e)>>}]
    /\ UNCHANGED <<pipeVars, call, ret>>

NextPool == \E w \in Workers : Take(w) \/ PoolWrite(w) \/ PoolLog(w)

SpecPool == InitPool /\ [][NextPool]_vars

-----------------------------------------------------------------------------
(* Properties of rounded (checked under SpecRounded) *)

\* the points examined on an image: all of a small one; on the 512 x 512
\* square, a grid through its corners, its centre and the ends of the arcs
PointsOf(img) ==
    IF img.w <= 2 * MaxDim /\ img.h <= 2 * MaxDim THEN Coords(img)
    ELSE LET g == {0, 1, 29, 30, 31, 101, 102, 103, 256, 408, 409, 410, 411,
                   480, 481, 482, 510, 511}
         IN {p \in g \X g : p[1] < img.w /\ p[2] < img.h}

\* C9: for every w x h image and radius fraction r, rounded(img, r) leaves img
\* unchanged and returns a new w x h image; with R = floor(r * min(w, h)) (102
\* for r = 0.2 on 512 x 512), every pixel inside the rounded rectangle of
\* corner radius R that the script draws over [0, 0, w, h] equals the source
\* pixel and every pixel outside it has alpha zero; for r = 0 the output equals
\* the input on every pixel.
C9_RoundedKeepsInsideClearsOutside ==
    (call.fn = "rounded" /\ call.done) =>
        LET g == call.given
            R == (call.radius_frac[1] * Min(g.w, g.h)) \div call.radius_frac[2]
        IN /\ call.img = g
           /\ IsImage(ret) /\ ret # g
           /\ ret.w = g.w /\ ret.h = g.h /\ ret.mode = "RGBA"
           /\ (g = RedSquare /\ call.radius_frac = <<1, 5>>) => R = 102
           /\ \A p \in PointsOf(g) :
                IF InRoundedRect(p[1], p[2], <<0, 0, g.w, g.h>>, R)
                THEN PixelAt(ret, p[1], p[2]) = PixelAt(g, p[1], p[2])
                ELSE PixelAt(ret, p[1], p[2])[4] = 0
           /\ call.radius_frac[1] = 0 =>
                \A p \in PointsOf(g) : PixelAt(ret, p[1], p[2]) = PixelAt(g, p[1], p[2])

\* a call on a non-square image that cleared a visible corner pixel and kept
\* a visible pixel
C9_Witness ==
    /\ call.fn = "rounded" /\ call.done
    /\ call.given.w # call.given.h
    /\ IntMul(Min(call.given.w, call.given.h), call.radius_frac) >= 1
    /\ PixelAt(call.given, 0, 0)[4] # 0
    /\ PixelAt(ret, 0, 0)[4] = 0
    /\ \E p \in Coords(call.given) :
          PixelAt(ret, p[1], p[2])[4] # 0 /\ PixelAt(ret, p[1], p[2]) = PixelAt(call.given, p[1], p[2])

-----------------------------------------------------------------------------
(* Properties of padded (checked under SpecPadded) *)

IsOpaque(img) == \A p \in Coords(img) : PixelAt(img, p[1], p[2])[4] = 255

\* the points examined on a canvas of size S whose content of size inner lies
\* at off: all of a small canvas; on a launcher canvas, its corners and both
\* sides of every edge of the content
CanvasPoints(S, inner, off) ==
    IF S <= 2 * MaxCanvas THEN (0 .. S - 1) \X (0 .. S - 1)
    ELSE LET g == {0, off - 1, off, off + 1, S \div 2, off + inner - 1, off + inner, S - 1}
             ok == {c \in g : 0 <= c /\ c < S}
         IN ok \X ok

\* what the claim says of a returned canvas: S x S, content floor(S * f)
\* square at (S - inner) // 2 on both axes, transparent outside it (and, for an
\* opaque image, opaque inside it), borders differing by at most 1, and
\* inner = 2S/3 on the launcher sizes at scale 2/3
PaddedAsStated ==
    LET S == call.canvas_size
        inner == (S * call.scale[1]) \div call.scale[2]
        near == (S - inner) \div 2
        far == S - inner - near
    IN /\ IsImage(ret)
       /\ ret.w = S /\ ret.h = S
       /\ ret.op = "paste"
       /\ ret.im.w = inner /\ ret.im.h = inner
       /\ ret.at = <<near, near>>
       /\ far - near \in {0, 1}
       /\ \A p \in CanvasPoints(S, inner, near) :
            LET in == /\ near <= p[1] /\ p[1] < near + inner
                      /\ near <= p[2] /\ p[2] < near + inner
            IN /\ ~in => PixelAt(ret, p[1], p[2]) = Transparent
               /\ (in /\ IsOpaque(call.img)) => PixelAt(ret, p[1], p[2])[4] = 255
       /\ (S \in LauncherSizes /\ call.scale = LauncherScale) => 3 * inner = 2 * S
       /\ (S = 96 /\ call.scale = LauncherScale) => inner = 64

\* C5 as stated: every call with a scale in (0, 1] returns such a canvas
C5_AsStated ==
    (call.fn = "padded" /\ call.done) => PaddedAsStated

\* C5, amended: every call with a scale in (0, 1] and floor(S * f) >= 1 returns
\* an S x S canvas whose content is floor(S * f) square at (S - inner) // 2 on
\* both axes, transparent outside it, the far border at most 1 wider than the
\* near one, and inner = 2S/3 on the ten launcher sizes at scale 2/3; a call
\* with floor(S * f) = 0 raises instead of returning a canvas.
C5_PaddedGeometry ==
    (call.fn = "padded" /\ call.done) =>
        IF (call.canvas_size * call.scale[1]) \div call.scale[2] >= 1
        THEN PaddedAsStated
        ELSE ret = Raised("ValueError")

\* the 96-pixel launcher canvas at scale 2/3: a 64-pixel inner square at (16, 16)
C5_Witness ==
    /\ call.fn = "padded" /\ call.done
    /\ call.canvas_size = 96 /\ call.scale = LauncherScale
    /\ IsImage(ret)
    /\ ret.w = 96 /\ ret.im.w = 64 /\ ret.at = <<16, 16>>

-----------------------------------------------------------------------------
(* Properties of save_svg_from_png (checked under SpecSvg) *)

B64Value(c) == (CHOOSE i \in 1..Len(B64Alphabet) : B64Alphabet[i] = c) - 1

RECURSIVE b64decode(_)
\* the bytes a base64 text stands for (RFC 4648); <<-1>> marks a text that is
\* not valid base64
b64decode(cs) ==
    IF Len(cs) = 0 THEN <<>>
    ELSE IF Len(cs) < 4 \/ cs[1] = "=" \/ cs[2] = "=" THEN <<-1>>
    ELSE LET a == B64Value(cs[1])
             b == B64Value(cs[2])
         IN IF cs[3] = "=" THEN
                IF Len(cs) = 4 /\ cs[4] = "=" THEN <<a * 4 + b \div 16>> ELSE <<-1>>
            ELSE IF cs[4] = "=" THEN
                IF Len(cs) = 4
                THEN <<a * 4 + b \div 16, (b % 16) * 16 + B64Value(cs[3]) \div 4>>
                ELSE <<-1>>
            ELSE <<a * 4 + b \div 16,
                   (b % 16) * 16 + B64Value(cs[3]) \div 4,
                   (B64Value(cs[3]) % 4) * 64 + B64Value(cs[4])>>
                 \o b64decode(SubSeq(cs, 5, Len(cs)))

RECURSIVE ParseInt(_)
\* the number a sequence of decimal digits reads as
ParseInt(ds) ==
    IF Len(ds) = 0 THEN 0
    ELSE 10 * ParseInt(SubSeq(ds, 1, Len(ds) - 1))
         + (CHOOSE v \in 0..9 : DecDigits[v + 1] = ds[Len(ds)])

\* C6: the document save_svg_from_png writes declares width, height and
\* viewBox equal to the image's pixel dimensions, and base64-decoding its
\* embedded payload gives exactly the bytes of the image encoded as PNG.
C6_SvgWrapsPng ==
    (call.fn = "save_svg_from_png" /\ call.done) =>
        /\ ParseInt(ret.width) = call.img.w
        /\ ParseInt(ret.height) = call.img.h
        /\ [i \in 1..4 |-> ParseInt(ret.viewBox[i])] = <<0, 0, call.img.w, call.img.h>>
        /\ ret.image.scheme = "data:image/png;base64,"
        /\ b64decode(ret.image.payload) = PngEncode(call.img)

\* a written document for a non-square image whose payload ends in padding
C6_Witness ==
    /\ call.fn = "save_svg_from_png" /\ call.done
    /\ call.img.w # call.img.h
    /\ ret.image.payload[Len(ret.image.payload)] = "="
    /\ Len(b64decode(ret.image.payload)) = 2 + 4 * call.img.w * call.img.h

-----------------------------------------------------------------------------
(* Properties of save_ico (checked under SpecIco) *)

\* C4 as stated: the bundle save_ico writes holds exactly one raster per
\* requested size (16, 32, 48, 64 by default), each the base image resized to
\* that size and none made from an already resized image
C4_AsStated ==
    (call.fn = "save_ico" /\ call.done) =>
        /\ Len(ret.frames) = Len(call.sizes)
        /\ \A i \in 1..Len(call.sizes) :
              ret.frames[i] = resize(call.base, call.sizes[i], call.sizes[i])

-----------------------------------------------------------------------------
(* Properties of the catalog shared by workers (checked under SpecPool) *)

\* no two entries of the catalog have the same destination
DestsAreDistinct ==
    /\ Cardinality(Dests) = Len(Manifest)
    /\ \A i, j \in 1..Len(Manifest) : DestOf[i] = DestOf[j] => i = j

\* C10: no two entries of the catalog have the same destination and no entry
\* changes the source image or the rounded variant, so with the entries taken
\* from either end and interleaved over two workers every written destination
\* holds what main() writes there, and when all are done the filesystem and
\* the set of progress lines are those of the sequential run.
C10_EntriesAreIndependent ==
    pc = "pool" =>
        /\ DestsAreDistinct
        /\ base = ImageOpen(src)
        /\ rounded_img = rounded(ImageOpen(src), radius).out
        /\ \A i \in 1..Len(Manifest) :
              LET done == \/ i \in pool.finished
                          \/ \E w \in Workers : pool.held[w] = [entry |-> i, phase |-> "written"]
              IN IF done THEN fs[DestOf[i]] = ContentFor(i, src, radius)
                 ELSE fs[DestOf[i]] = fsAtStart.files[DestOf[i]]
        /\ pool.finished = 1..Len(Manifest) =>
              pool.logged = {LinesUpTo(Len(Manifest))[i] : i \in 1..Len(Manifest)}

\* all entries done although the first was written after the last: one worker
\* held entry 1 while the other went through the rest of the catalog
C10_Witness ==
    /\ pc = "pool"
    /\ pool.order = "forward"
    /\ pool.next = Len(Manifest) + 1
    /\ pool.finished = 2..Len(Manifest)
    /\ \E w \in Workers : pool.held[w] = [entry |-> 1, phase |-> "written"]
    /\ \A i \in 1..Len(Manifest) : fs[DestOf[i]] = ContentFor(i, src, radius)

====
